---- MODULE Spec2Model ----
(***************************************************************************)
(* Model of cutie (QC ALM test export): the record mapper                  *)
(* map_entity_to_test, the page fetcher fetch_test_from_index and the      *)
(* paginated, thread-pooled retrieval loop of main() in src/cutie.py, and  *)
(* ALMConnection.authenticate of src/class_def/alm.py.                     *)
(*                                                                         *)
(* Python values are modelled as follows.                                  *)
(*   str          a sequence of tokens; markup tags are the tokens of Tags *)
(*   cell value   [isNone, text]: None, or a str                           *)
(*   dict         a function from keys to cell values                      *)
(*   mapping      a sequence of <<display-name, source-key>> pairs         *)
(*                (an ordered dict)                                        *)
(*   Future       [index, state, res, outcome]                             *)
(***************************************************************************)
EXTENDS Integers, Sequences, FiniteSets, TLC

VARIABLES
    pc,          \* position of the main thread in main()
    session,     \* alm_conn.session
    count_res,   \* the reply to the preliminary request
    requests,    \* the start-indices requested from the server, in order
    mapping,     \* test_mapping.mapping
    test_count,  \* TotalResults of the preliminary request
    index,       \* loop variable of range(1, test_count, 100)
    futures,     \* the list of submitted futures, in submission order
    cursor,      \* position of "for future in futures"
    all_tests,   \* the result table
    progress,    \* completed units of the progress bar
    sink,        \* rows written to the worksheet
    overtaken,   \* history: a task finished before an earlier-submitted one
    call         \* one call of a pure function: its arguments and its return

vars == <<pc, session, count_res, requests, mapping, test_count, index,
          futures, cursor, all_tests, progress, sink, overtaken, call>>

----------------------------------------------------------------------------
(* Program constants *)

QUERY_RESULT_MAX_PER_REQUEST == 100

MAX_CONNECTION_THREADS == 5

(* Bounds of the model *)

\* the largest number of pages a run submits
MaxPages == 6

\* the largest number of records the server puts in one page of the model
MaxRecs == 1

\* the largest number of fields of a record handed to map_entity_to_test
MaxFields == 2

\* the largest number of pages of a run whose mapping is drawn from a set
MaxFewPages == 3

\* the largest number of pages of a run in which requests may never return
MaxHangPages == 6

\* the largest number of page results handed to the assembling loop
MaxResults == 3

----------------------------------------------------------------------------
(* Values *)

None == [isNone |-> TRUE, text |-> <<>>]

Str(s) == [isNone |-> FALSE, text |-> s]

Tags == {"<b>", "</b>"}

\* BeautifulSoup(s, features="lxml").text: the visible text, markup removed
HtmlText(s) == SelectSeq(s, LAMBDA t : t \notin Tags)

EmptyDict == [x \in {} |-> None]

DictPut(d, k, v) == [x \in (DOMAIN d) \cup {k} |-> IF x = k THEN v ELSE d[x]]

\* dict.get(k, default)
DictGet(d, k, default) == IF k \in DOMAIN d THEN d[k] ELSE default

----------------------------------------------------------------------------
(* map_entity_to_test *)

\* variant: the first value entry of a field is taken when there are several
RECURSIVE CollectFields_FirstValue(_, _)
CollectFields_FirstValue(fields, test_field_dict) ==
    IF fields = <<>> THEN [raised |-> FALSE, dict |-> test_field_dict]
    ELSE LET field == Head(fields) IN
         IF ~field.hasValues THEN [raised |-> TRUE, dict |-> test_field_dict]
         ELSE IF Len(field.values) >= 1 /\ ~field.values[1].isNone
              THEN CollectFields_FirstValue(Tail(fields),
                      DictPut(test_field_dict, field.Name, field.values[1]))
              ELSE CollectFields_FirstValue(Tail(fields), test_field_dict)

\* the loop over unprocessed_test_dict.get("Fields"): a field with exactly
\* one value entry whose value is not None is stored under its name; len()
\* of a missing value list raises TypeError
RECURSIVE CollectFields(_, _)
CollectFields(fields, test_field_dict) ==
    IF fields = <<>> THEN [raised |-> FALSE, dict |-> test_field_dict]
    ELSE LET field == Head(fields) IN
         IF ~field.hasValues THEN [raised |-> TRUE, dict |-> test_field_dict]
         ELSE IF Len(field.values) = 1 /\ ~field.values[1].isNone
              THEN CollectFields(Tail(fields),
                                 DictPut(test_field_dict, field.Name, field.values[1]))
              ELSE CollectFields(Tail(fields), test_field_dict)

\* variant: a missing value is an empty string under every key
MappedCell_EmptyDefault(test_field_dict, source_key) ==
    IF source_key # "description"
    THEN DictGet(test_field_dict, source_key, Str(<<>>))
    ELSE Str(HtmlText(DictGet(test_field_dict, source_key, Str(<<>>)).text))

\* variant: the markup is removed under every key
MappedCell_ReduceAll(test_field_dict, source_key) ==
    IF source_key \notin DOMAIN test_field_dict /\ source_key # "description"
    THEN None
    ELSE Str(HtmlText(DictGet(test_field_dict, source_key, Str(<<>>)).text))

\* the cell of one mapping entry
MappedCell(test_field_dict, source_key) ==
    IF source_key # "description"
    THEN DictGet(test_field_dict, source_key, None)
    ELSE Str(HtmlText(DictGet(test_field_dict, source_key, Str(<<>>)).text))

\* variant: the row holds a cell only for the keys found in the record
map_entity_to_test_FoundOnly(unprocessed_test_dict, m) ==
    IF ~unprocessed_test_dict.hasFields
    THEN [raised |-> TRUE, row |-> <<>>]
    ELSE LET collected == CollectFields(unprocessed_test_dict.Fields, EmptyDict)
             found == SelectSeq(m, LAMBDA e : e[2] \in DOMAIN collected.dict)
         IN IF collected.raised
            THEN [raised |-> TRUE, row |-> <<>>]
            ELSE [raised |-> FALSE,
                  row |-> [i \in 1..Len(found) |->
                              MappedCell(collected.dict, found[i][2])]]

map_entity_to_test(unprocessed_test_dict, m) ==
    IF ~unprocessed_test_dict.hasFields
    THEN [raised |-> TRUE, row |-> <<>>]
    ELSE LET collected == CollectFields(unprocessed_test_dict.Fields, EmptyDict) IN
         IF collected.raised
         THEN [raised |-> TRUE, row |-> <<>>]
         ELSE [raised |-> FALSE,
               row |-> [i \in 1..Len(m) |-> MappedCell(collected.dict, m[i][2])]]

----------------------------------------------------------------------------
(* fetch_test_from_index *)

\* variant: the rows mapped before the exception are returned
RECURSIVE MapTests_KeepMapped(_, _, _)
MapTests_KeepMapped(unmapped_tests, m, mapped_tests) ==
    IF unmapped_tests = <<>> THEN [raised |-> FALSE, rows |-> mapped_tests]
    ELSE LET mapped == map_entity_to_test(Head(unmapped_tests), m) IN
         IF mapped.raised THEN [raised |-> FALSE, rows |-> mapped_tests]
         ELSE MapTests_KeepMapped(Tail(unmapped_tests), m,
                                  Append(mapped_tests, mapped.row))

\* variant: each mapped row is put at the front of the list
RECURSIVE MapTests_Prepend(_, _, _)
MapTests_Prepend(unmapped_tests, m, mapped_tests) ==
    IF unmapped_tests = <<>> THEN [raised |-> FALSE, rows |-> mapped_tests]
    ELSE LET mapped == map_entity_to_test(Head(unmapped_tests), m) IN
         IF mapped.raised THEN [raised |-> TRUE, rows |-> <<>>]
         ELSE MapTests_Prepend(Tail(unmapped_tests), m, <<mapped.row>> \o mapped_tests)

\* the loop "for test in unmapped_tests: mapped_tests.append(...)"
RECURSIVE MapTests(_, _, _)
MapTests(unmapped_tests, m, mapped_tests) ==
    IF unmapped_tests = <<>> THEN [raised |-> FALSE, rows |-> mapped_tests]
    ELSE LET mapped == map_entity_to_test(Head(unmapped_tests), m) IN
         IF mapped.raised THEN [raised |-> TRUE, rows |-> <<>>]
         ELSE MapTests(Tail(unmapped_tests), m, Append(mapped_tests, mapped.row))

\* variant: only server errors are failures
IsFailureStatus_ServerErrors(status_code) == status_code >= 500

\* variant: only client and server errors are failures
IsFailureStatus_From400(status_code) == status_code >= 400

\* variant: every status of 200..299 is a success
IsFailureStatus_Non2xx(status_code) == status_code \notin 200..299

\* the status test of line 93
IsFailureStatus(status_code) == status_code # 200

\* the outcome of one call given the reply res of authed_session.get:
\*   kind "raise": an exception leaves the function
\*   kind "none":  the function returns None
\*   kind "rows":  the function returns the list rows
fetch_test_from_index(res, m) ==
    IF res.raises THEN [kind |-> "raise", rows |-> <<>>]
    ELSE IF IsFailureStatus(res.status_code) THEN [kind |-> "none", rows |-> <<>>]
    ELSE IF ~res.content.decodes THEN [kind |-> "raise", rows |-> <<>>]
    ELSE LET mapped == MapTests(res.content.entities, m, <<>>) IN
         IF mapped.raised THEN [kind |-> "raise", rows |-> <<>>]
         ELSE [kind |-> "rows", rows |-> mapped.rows]

----------------------------------------------------------------------------
(* The server *)

\* the record at position p of the collection ordered by id: its id is p
ServerRecord(p) ==
    [hasFields |-> TRUE,
     Fields |-> << [Name |-> "id", hasValues |-> TRUE,
                    values |-> <<Str(<<ToString(p)>>)>>],
                   [Name |-> "description", hasValues |-> TRUE,
                    values |-> <<Str(<<"<b>", "Pass", "</b>">>)>>] >>]

\* a record whose dict has no "Fields" entry
NoFieldsRecord == [hasFields |-> FALSE, Fields |-> <<>>]

\* a decodable body holding the n records from position start on
PageBody(start, n) ==
    [decodes |-> TRUE, entities |-> [j \in 1..n |-> ServerRecord(start + j - 1)]]

\* a body json.loads cannot decode, or one without an "entities" list
BadBody == [decodes |-> FALSE, entities |-> <<>>]

Reply(status_code, content) ==
    [raises |-> FALSE, status_code |-> status_code, content |-> content]

\* authed_session.get raises (connection error, timeout of the HTTP layer)
TransportError == [raises |-> TRUE, status_code |-> 0, content |-> BadBody]

NoReply == [raises |-> FALSE, status_code |-> 0, content |-> BadBody]

\* the request is under way and will never return: no reply, no exception
NeverReturns == [raises |-> FALSE, status_code |-> -1, content |-> BadBody]

\* what the server may answer to the request of the page starting at start:
\* a transport error, a failure status, an empty page or MaxRecs records
Replies(start) ==
    {TransportError, Reply(404, PageBody(start, MaxRecs)),
     Reply(200, PageBody(start, 0)), Reply(200, PageBody(start, MaxRecs))}

\* the int answers to the preliminary request: every count around the first
\* two page boundaries, then one count for each number of pages up to MaxPages
CountChoices ==
    {c \in 0..(2 * QUERY_RESULT_MAX_PER_REQUEST + 2) :
        c % QUERY_RESULT_MAX_PER_REQUEST \in {0, 1, 2}}
    \cup {k * QUERY_RESULT_MAX_PER_REQUEST + 50 : k \in 3..(MaxPages - 1)}

\* the mapping of the preferences file of a run
RunMapping == << <<"ALM internal ID", "id">>, <<"Description", "description">> >>

Mappings == {RunMapping, << <<"Owner", "owner">>, <<"ALM internal ID", "id">> >>}

\* mappings of no column and of three columns, two of them the description
MapMappings ==
    Mappings
    \cup {<<>>,
          << <<"Description", "description">>, <<"Owner", "owner">>,
             <<"Summary", "description">> >>}

----------------------------------------------------------------------------
(* The thread pool *)

NoOutcome == [kind |-> "unset", rows |-> <<>>]

\* no pure-function call is under way
NoCall == [fn |-> "none", res |-> NoReply, returned |-> FALSE, ret |-> NoOutcome]

\* a future as executor.submit returns it
NewFuture(i) == [index |-> i, state |-> "PENDING", res |-> NoReply, outcome |-> NoOutcome]

Running(fs) == {i \in 1..Len(fs) : fs[i].state = "RUNNING"}

Pending(fs) == {i \in 1..Len(fs) : fs[i].state = "PENDING"}

\* variant: a thread is started for every work item
WorkerAvailable_Unbounded(fs) == TRUE

\* a thread of the pool is free to take a work item: max_workers threads
WorkerAvailable(fs) == Cardinality(Running(fs)) < MAX_CONNECTION_THREADS

\* variant: the wait ends only for a task that returned rows
IsDone_OnlySuccess(f) == f.state = "FINISHED" /\ f.outcome.kind = "rows"

\* variant: the wait for a task whose request never returns is given up
IsDone_Timeout(f) == f.state \in {"FINISHED", "CANCELLED"} \/ f.res = NeverReturns

\* variant: nothing waits for a task to finish
IsDone_NoWait(f) == TRUE

\* future.result() returns (or raises) only once the future is finished; the
\* exit of the "with ThreadPoolExecutor" block joins the workers the same way
IsDone(f) == f.state \in {"FINISHED", "CANCELLED"}

IsFinished(f) == f.state = "FINISHED"

\* variant: the stop value is included
InRange_Inclusive(i, stop) == i <= stop

\* the stop test of range(1, test_count, QUERY_RESULT_MAX_PER_REQUEST)
InRange(i, stop) == i < stop

\* variant: the newest future is put at the front of the list
Submitted_AtFront(fs, f) == <<f>> \o fs

\* futures = [executor.submit(...) for index in range(...)]
Submitted(fs, f) == Append(fs, f)

\* all_tests += task_result
Extend(table, task_result) == table \o task_result

\* the table after "task_result = future.result()" and the test for None
Collected(table, f) ==
    IF f.outcome.kind = "rows" THEN Extend(table, f.outcome.rows) ELSE table

\* variant: the worker adds the rows of its page to the table itself
TaskTable_Shared(table, f) == Collected(table, f)

\* the table after the step of a worker: fetch_test_from_index appends to its
\* own list mapped_tests (line 79) and has no reference to all_tests
TaskTable(table, f) == table

\* variant: the update is skipped when the task raised
Advanced_UnlessRaised(p, f) ==
    IF f.outcome.kind = "raise" THEN p ELSE p + QUERY_RESULT_MAX_PER_REQUEST

\* progress.update(fetch_test_task, advance=QUERY_RESULT_MAX_PER_REQUEST),
\* in the finally clause
Advanced(p, f) == p + QUERY_RESULT_MAX_PER_REQUEST

\* variant: a page that yields no rows is queued again
Settled_RetryOnFailure(f, res, m) ==
    IF fetch_test_from_index(res, m).kind # "rows"
    THEN [f EXCEPT !.state = "PENDING"]
    ELSE [index |-> f.index, state |-> "FINISHED", res |-> res,
          outcome |-> fetch_test_from_index(res, m)]

\* the future of a task once fetch_test_from_index has returned or raised:
\* it is finished with that outcome, whatever the outcome is
Settled(f, res, m) ==
    [index |-> f.index, state |-> "FINISHED", res |-> res,
     outcome |-> fetch_test_from_index(res, m)]

\* variant: the keys are listed last to first
mapping_order_Reversed(m) == [i \in 1..Len(m) |-> Str(<<m[Len(m) + 1 - i][1]>>)]

\* mapping_order: the keys of the mapping
mapping_order(m) == [i \in 1..Len(m) |-> Str(<<m[i][1]>>)]

\* variant: a table that exists already is taken up again
NewTable_Reused(table, m) == IF table = <<>> THEN <<mapping_order(m)>> ELSE table

\* all_tests = [test_mapping.mapping_order], line 246: the name is bound to
\* a new list that holds the header, whatever it was bound to before
NewTable(table, m) == <<mapping_order(m)>>

----------------------------------------------------------------------------
(* ALMConnection *)

\* the class attribute session = None, and the requests session s
NoSession == "None"

NewSession == "session"

\* a session handed to the constructor, ALMConnection(session)
GivenSession == "given session"

\* variant: the status of the login request is not tested
authenticate_LoginUnchecked(old_session, is_authed, login_user, session_create) ==
    LET sent == IF is_authed # 200
                THEN <<"is-authenticated", "alm-authenticate", "site-session">>
                ELSE <<"is-authenticated", "site-session">>
    IN IF session_create \notin {200, 201}
       THEN [session |-> old_session, sent |-> sent]
       ELSE [session |-> NewSession, sent |-> sent]

\* ALMConnection.authenticate: the session of the connection after the call
\* and the requests it sent, given the status of each reply
authenticate(old_session, is_authed, login_user, session_create) ==
    IF is_authed # 200 /\ login_user \notin {200, 201}
    THEN [session |-> old_session,
          sent |-> <<"is-authenticated", "alm-authenticate">>]
    ELSE LET sent == IF is_authed # 200
                     THEN <<"is-authenticated", "alm-authenticate", "site-session">>
                     ELSE <<"is-authenticated", "site-session">>
         IN IF session_create \notin {200, 201}
            THEN [session |-> old_session, sent |-> sent]
            ELSE [session |-> NewSession, sent |-> sent]

\* the statuses the server answers the authentication requests with
AuthStatuses == {200, 201, 401}

----------------------------------------------------------------------------
(* main() *)

\* the reply to the preliminary request: the body does not decode, its
\* TotalResults is not an int (or is missing), or it is the int value
NoCountReply == [kind |-> "none", value |-> 0]

CountReplies(counts) ==
    {[kind |-> "undecodable", value |-> 0], [kind |-> "noint", value |-> 0]}
    \cup {[kind |-> "int", value |-> c] : c \in counts}

\* variant: the type of TotalResults is not tested
CountIsInt_Unchecked(r) == TRUE

\* isinstance(test_count, int), line 239
CountIsInt(r) == r.kind = "int"

\* variant: the connection always carries a session object
HasSession_Always(s) == TRUE

\* alm_conn.session.get exists: the session is not None
HasSession(s) == s # NoSession

\* the frame of the actions that leave the connection alone
conn == <<session, count_res>>

Init ==
    /\ pc = "auth"
    /\ session = NoSession
    /\ count_res = NoCountReply
    /\ requests = <<>>
    /\ mapping = RunMapping
    /\ test_count = 0
    /\ index = 1
    /\ futures = <<>>
    /\ cursor = 1
    /\ all_tests = <<>>
    /\ progress = 0
    /\ sink = <<>>
    /\ overtaken = FALSE
    /\ call = NoCall

\* lines 217-220: the connection is created and authenticate is called; a
\* request that raises ends the run with the exception
Authenticate ==
    /\ pc = "auth"
    /\ \/ /\ \E is_authed, login_user, session_create \in AuthStatuses :
                session' = authenticate(session, is_authed, login_user,
                                        session_create).session
          /\ pc' = "count"
       \/ /\ pc' = "auth_raised"
          /\ UNCHANGED session
    /\ UNCHANGED <<count_res, requests, mapping, test_count, index, futures,
                   cursor, all_tests, progress, sink, overtaken, call>>

\* lines 235-246: the preliminary request. Without a session the attribute
\* access raises; a body that does not decode raises; exit(5) without an int
\* count; else the count is kept and the table starts with the header
GetCountFrom(counts) ==
    /\ pc = "count"
    /\ IF ~HasSession(session)
       THEN /\ pc' = "crashed"
            /\ UNCHANGED <<count_res, test_count, all_tests>>
       ELSE \E r \in CountReplies(counts) :
               /\ count_res' = r
               /\ IF r.kind = "undecodable"
                  THEN /\ pc' = "crashed"
                       /\ UNCHANGED <<test_count, all_tests>>
                  ELSE IF ~CountIsInt(r)
                  THEN /\ pc' = "exit5"
                       /\ UNCHANGED <<test_count, all_tests>>
                  ELSE /\ test_count' = r.value
                       /\ pc' = "submit"
                       /\ all_tests' = NewTable(all_tests, mapping)
    /\ UNCHANGED <<session, requests, mapping, index, futures, cursor,
                   progress, sink, overtaken, call>>

GetCount == GetCountFrom(CountChoices)

\* lines 264-274: one iteration of the list comprehension
Submit ==
    /\ pc = "submit"
    /\ InRange(index, test_count)
    /\ futures' = Submitted(futures, NewFuture(index))
    /\ index' = index + QUERY_RESULT_MAX_PER_REQUEST
    /\ UNCHANGED <<conn, requests, pc, mapping, test_count, cursor, all_tests,
                   progress, sink, overtaken, call>>

\* the range is exhausted
SubmitDone ==
    /\ pc = "submit"
    /\ ~InRange(index, test_count)
    /\ pc' = "collect"
    /\ UNCHANGED <<conn, requests, mapping, test_count, index, futures, cursor,
                   all_tests, progress, sink, overtaken, call>>

\* a worker thread takes the oldest work item of the queue and sends the
\* request of lines 84-91
StartTask ==
    /\ Pending(futures) # {}
    /\ WorkerAvailable(futures)
    /\ LET i == CHOOSE p \in Pending(futures) : \A q \in Pending(futures) : p <= q
       IN /\ futures' = [futures EXCEPT ![i].state = "RUNNING"]
          /\ requests' = Append(requests, futures[i].index)
    /\ UNCHANGED <<conn, pc, mapping, test_count, index, cursor, all_tests,
                   progress, sink, overtaken, call>>

\* the request of task i returns or raises; lines 93-103 run and the worker
\* stores the outcome in the future
Return(i, res) ==
    /\ futures' = [futures EXCEPT ![i] = Settled(@, res, mapping)]
    /\ all_tests' = TaskTable(all_tests, Settled(futures[i], res, mapping))
    /\ overtaken' = (overtaken \/ \E j \in 1..(i - 1) : ~IsFinished(futures[j]))
    /\ UNCHANGED <<conn, requests, pc, mapping, test_count, index, cursor,
                   progress, sink, call>>

FinishTask(i) ==
    /\ i \in Running(futures)
    /\ \E res \in Replies(futures[i].index) : Return(i, res)

\* lines 275-288: one iteration of "for future in futures"
Collect ==
    /\ pc = "collect"
    /\ cursor <= Len(futures)
    /\ LET future == futures[cursor] IN
          IF future.state = "CANCELLED"
          THEN UNCHANGED <<all_tests, progress>>
          ELSE /\ IsDone(future)
               /\ all_tests' = Collected(all_tests, future)
               /\ progress' = Advanced(progress, future)
    /\ cursor' = cursor + 1
    /\ UNCHANGED <<conn, requests, pc, mapping, test_count, index, futures,
                   sink, overtaken, call>>

\* line 262: leaving the with block shuts the executor down and waits
ExitPool ==
    /\ pc = "collect"
    /\ cursor > Len(futures)
    /\ \A i \in 1..Len(futures) : IsDone(futures[i])
    /\ pc' = "write"
    /\ UNCHANGED <<conn, requests, mapping, test_count, index, futures, cursor,
                   all_tests, progress, sink, overtaken, call>>

\* lines 291-294: the table goes to the worksheet row by row
WriteOutput ==
    /\ pc = "write"
    /\ sink' = all_tests
    /\ pc' = "done"
    /\ UNCHANGED <<conn, requests, mapping, test_count, index, futures, cursor,
                   all_tests, progress, overtaken, call>>

\* the steps of the worker threads and of the main thread after the count
Fetching ==
    \/ Submit
    \/ SubmitDone
    \/ StartTask
    \/ \E i \in 1..(MaxPages + 1) : FinishTask(i)
    \/ Collect
    \/ ExitPool
    \/ WriteOutput

Next ==
    \/ Authenticate
    \/ GetCount
    \/ Fetching

Spec == Init /\ [][Next]_vars

----------------------------------------------------------------------------
(* Properties of the retrieval loop, checked under Spec *)

\* the column of the table that holds the record id
IdColumn == CHOOSE c \in 1..Len(mapping) : mapping[c][2] = "id"

\* the start-index of the page a data row came from: the submitted page whose
\* records carry the id of the row
RowPage(row) ==
    LET ids(s) == {Str(<<ToString(s + j - 1)>>) : j \in 1..(MaxRecs + 1)}
    IN CHOOSE s \in {futures[i].index : i \in 1..Len(futures)} :
          row[IdColumn] \in ids(s)

\* the reply was a page the fetcher returns rows for
Succeeded(f) == IsFinished(f) /\ f.outcome.kind = "rows"

Returned == pc \in {"write", "done"}

\* C1: the data rows of the table appear in ascending start-index order of
\* the pages they came from, whatever the order in which the tasks finished.
C1_RowsInPageOrder ==
    LET page == [a \in 2..Len(all_tests) |-> RowPage(all_tests[a])]
    IN \A a \in 2..(Len(all_tests) - 1) : page[a] <= page[a + 1]

\* three pages finished out of submission order and all their rows are in
\* the written table
C1_Witness ==
    /\ pc = "done"
    /\ overtaken
    /\ Len(futures) >= 3
    /\ \A i \in 1..3 : Succeeded(futures[i]) /\ futures[i].outcome.rows # <<>>
    /\ RowPage(sink[2]) < RowPage(sink[Len(sink)])

\* C2: when the run completes, the table holds every row of every page that
\* was answered with status 200 and no row of a page that failed or raised;
\* failures do not stop the collection of the later pages.
C2_PartialFailure ==
    Returned =>
        /\ cursor = Len(futures) + 1
        /\ \A i \in 1..Len(futures) :
              LET f == futures[i]
                  ok == ~f.res.raises /\ f.res.status_code = 200
                  mine == {a \in 2..Len(all_tests) : RowPage(all_tests[a]) = f.index}
              IN IF ok
                 THEN /\ Cardinality(mine) = Len(f.res.content.entities)
                      /\ \A j \in 1..Len(f.res.content.entities) :
                            \E a \in mine :
                               all_tests[a] =
                                  map_entity_to_test(f.res.content.entities[j], mapping).row
                 ELSE mine = {}

\* a failed page and a raising page lie between pages whose rows are written
C2_Witness ==
    /\ pc = "done"
    /\ Len(futures) >= 4
    /\ futures[1].outcome.kind = "rows" /\ futures[1].outcome.rows # <<>>
    /\ futures[2].outcome.kind = "none"
    /\ futures[3].outcome.kind = "raise"
    /\ futures[4].outcome.kind = "rows" /\ futures[4].outcome.rows # <<>>
    /\ Len(sink) = 3

\* the start-indices 1, 1 + page_size, ... below n
StartIndices(n) ==
    {1 + k * QUERY_RESULT_MAX_PER_REQUEST : k \in 0..(MaxPages + 1)} \cap 1..(n - 1)

\* C3: one task is submitted per start-index 1 + k*page_size < total_count,
\* in ascending order, and no other task.
C3_SubmittedIndices ==
    /\ \A i \in 1..Len(futures) :
          /\ futures[i].index = 1 + (i - 1) * QUERY_RESULT_MAX_PER_REQUEST
          /\ futures[i].index \in StartIndices(test_count)
    /\ pc \in {"collect", "write", "done"} =>
          {futures[i].index : i \in 1..Len(futures)} = StartIndices(test_count)

\* the submission ended at a count that is one past a page boundary
C3_Witness ==
    /\ pc = "collect"
    /\ test_count = 2 * QUERY_RESULT_MAX_PER_REQUEST + 1
    /\ Len(futures) = 2

\* C4: once the pool block is left, no submitted task is pending or running.
C4_NoTaskLeftRunning ==
    Returned => \A i \in 1..Len(futures) : futures[i].state \notin {"PENDING", "RUNNING"}

\* the pool block is left after more tasks than the pool has threads
C4_Witness ==
    /\ pc = "write"
    /\ Len(futures) > MAX_CONNECTION_THREADS
    /\ overtaken

\* C5: at most MAX_CONNECTION_THREADS page fetches are in flight.
C5_BoundedParallelism == Cardinality(Running(futures)) <= MAX_CONNECTION_THREADS

\* every thread of the pool is busy and a submitted task waits in the queue
C5_Witness ==
    /\ Cardinality(Running(futures)) = MAX_CONNECTION_THREADS
    /\ Pending(futures) # {}

\* the tasks the loop has resolved so far
Resolved == {i \in 1..(cursor - 1) : futures[i].state # "CANCELLED"}

\* C6: cumulative progress is page_size times the number of tasks resolved,
\* whatever their outcome and however many rows they yielded.
C6_ProgressPerTask ==
    progress = QUERY_RESULT_MAX_PER_REQUEST * Cardinality(Resolved)

\* tasks of every outcome were resolved, one of them with no row at all
C6_Witness ==
    /\ cursor = 5
    /\ futures[1].outcome.kind = "raise"
    /\ futures[2].outcome.kind = "none"
    /\ futures[3].outcome.kind = "rows" /\ futures[3].outcome.rows = <<>>
    /\ futures[4].outcome.kind = "rows" /\ futures[4].outcome.rows # <<>>
    /\ progress = 4 * QUERY_RESULT_MAX_PER_REQUEST

\* C7: when the run completes, the progress advanced is at least total_count.
C7_ProgressReachesTotal == pc = "done" => progress >= test_count

\* the record positions of the page that starts at s
PagePositions(s) == s..(s + QUERY_RESULT_MAX_PER_REQUEST - 1)

\* C24: once the tasks are submitted, every record position 1..total_count
\* lies in the page of a submitted start-index.
C24_PagesCoverCollection ==
    pc \in {"collect", "write", "done"} =>
        \A r \in 1..test_count :
           \E i \in 1..Len(futures) : r \in PagePositions(futures[i].index)

\* how many times the start-index s was requested from the server
TimesRequested(s) == Cardinality({a \in 1..Len(requests) : requests[a] = s})

\* C11: over a whole run each start-index is requested from the server
\* exactly once; a page that fails or raises is not requested again.
C11_RequestedOnce ==
    /\ \A a \in 1..Len(requests) : TimesRequested(requests[a]) = 1
    /\ \A i \in 1..Len(futures) :
          futures[i].state \in {"RUNNING", "FINISHED"} =>
             TimesRequested(futures[i].index) = 1
    /\ Returned =>
          /\ Len(requests) = Len(futures)
          /\ \A i \in 1..Len(futures) : TimesRequested(futures[i].index) = 1

\* the run is over, one page failed, one raised, and each was requested once
C11_Witness ==
    /\ pc = "done"
    /\ Len(futures) = 3
    /\ futures[1].outcome.kind = "none"
    /\ futures[2].outcome.kind = "raise"
    /\ requests = <<1, 101, 201>>

C19_NoSessionAborts ==
    session = NoSession =>
        /\ pc \in {"auth", "auth_raised", "count", "crashed"}
        /\ count_res = NoCountReply
        /\ futures = <<>>
        /\ requests = <<>>
        /\ sink = <<>>

\* authenticate left the session unset and the run ended on the exception
\* of the count request
C19_Witness ==
    /\ pc = "crashed"
    /\ session = NoSession
    /\ count_res = NoCountReply
    /\ futures = <<>>

----------------------------------------------------------------------------
(* Runs of a few pages under any mapping, with the scheduling of the threads *)

\* the mappings of a run: two, three or no columns, and RunMapping reversed
FewMappings ==
    MapMappings
    \cup { << <<"Description", "description">>, <<"ALM internal ID", "id">> >> }

\* counts of no page and of one to MaxFewPages pages
FewCounts ==
    {0, 2} \cup {k * QUERY_RESULT_MAX_PER_REQUEST + 50 : k \in 1..(MaxFewPages - 1)}

InitFew ==
    /\ pc = "auth"
    /\ session = NoSession
    /\ count_res = NoCountReply
    /\ requests = <<>>
    /\ mapping \in FewMappings
    /\ test_count = 0
    /\ index = 1
    /\ futures = <<>>
    /\ cursor = 1
    /\ all_tests = <<>>
    /\ progress = 0
    /\ sink = <<>>
    /\ overtaken = FALSE
    /\ call = NoCall

GetCountFew == GetCountFrom(FewCounts)

NextFew ==
    \/ Authenticate
    \/ GetCountFew
    \/ Fetching

\* every HTTP call returns and the threads are scheduled: a step of the
\* main thread or of a worker that can be taken is taken
SpecFew == InitFew /\ [][NextFew]_vars /\ WF_vars(Fetching)

\* the table has its header
Started == pc \in {"submit", "collect", "write", "done"}

\* the number of rows the first n futures hand to the table
RECURSIVE RowCount(_, _)
RowCount(fs, n) ==
    IF n = 0 THEN 0
    ELSE RowCount(fs, n - 1)
         + (IF Succeeded(fs[n]) THEN Len(fs[n].outcome.rows) ELSE 0)

\* C17: row 0 of the table is the sequence of the display-names in mapping
\* order; every other row is a data row of a collected page; the header is
\* there whatever the pages returned.
C17_HeaderRow ==
    Started =>
        /\ Len(all_tests) = 1 + RowCount(futures, cursor - 1)
        /\ Len(all_tests[1]) = Len(mapping)
        /\ \A i \in 1..Len(mapping) : all_tests[1][i] = Str(<<mapping[i][1]>>)
        /\ pc = "done" => sink = all_tests

\* three columns, every page failed or raised, and the header is written
C17_Witness ==
    /\ pc = "done"
    /\ Len(mapping) = 3
    /\ Len(futures) = 2
    /\ futures[1].outcome.kind = "none"
    /\ futures[2].outcome.kind = "raise"
    /\ sink = << <<Str(<<"Description">>), Str(<<"Owner">>), Str(<<"Summary">>)>> >>

\* the rows of the pages answered with status 200, in submission order
RECURSIVE RowsOfPages(_, _)
RowsOfPages(fs, n) ==
    IF n = 0 THEN <<>>
    ELSE RowsOfPages(fs, n - 1)
         \o (IF ~fs[n].res.raises /\ fs[n].res.status_code = 200
             THEN [j \in 1..Len(fs[n].res.content.entities) |->
                      map_entity_to_test(fs[n].res.content.entities[j], mapping).row]
             ELSE <<>>)

\* the header and the rows of the successful pages are in the sink
Written ==
    /\ pc = "done"
    /\ \A i \in 1..Len(futures) : IsFinished(futures[i])
    /\ sink = <<[i \in 1..Len(mapping) |-> Str(<<mapping[i][1]>>)]>>
              \o RowsOfPages(futures, Len(futures))

\* C21: no step changes the mapping; a step of a worker (one that changes a
\* future and submits none) leaves the table alone; the table changes only
\* when the main thread builds the header or adds the result of the future
\* it has just waited for.
C21_TasksLeaveSharedState ==
    [][/\ mapping' = mapping
       /\ (futures' # futures /\ Len(futures') = Len(futures)) =>
              all_tests' = all_tests
       /\ all_tests' # all_tests =>
              /\ futures' = futures
              /\ \/ pc = "count" /\ all_tests' = <<mapping_order(mapping)>>
                 \/ /\ pc = "collect"
                    /\ cursor' = cursor + 1
                    /\ all_tests' = all_tests \o futures[cursor].outcome.rows]_vars

\* the second task has returned its rows while the main thread has only
\* collected the first: the rows of the second are not in the table
C21_Witness ==
    /\ pc = "collect"
    /\ cursor = 2
    /\ Len(futures) >= 2
    /\ Len(mapping) = 3
    /\ Succeeded(futures[1]) /\ Succeeded(futures[2])
    /\ futures[2].outcome.rows # <<>>
    /\ all_tests = <<mapping_order(mapping)>> \o futures[1].outcome.rows

\* C20: once the count is known, whatever each page returns, the run ends
\* with the header and the rows of the successful pages in the sink.
C20_TableEventuallyWritten == (pc = "submit") ~> Written

\* every page of the run failed or raised and the table was written
C20_Witness ==
    /\ Written
    /\ Len(futures) = MaxFewPages
    /\ \A i \in 1..Len(futures) : futures[i].outcome.kind \in {"none", "raise"}
    /\ \E i \in 1..Len(futures) : futures[i].outcome.kind = "raise"

----------------------------------------------------------------------------
(* Runs in which the request of a task may never return *)

\* counts of two pages and of MaxHangPages pages
HangCounts ==
    {k * QUERY_RESULT_MAX_PER_REQUEST + 50 : k \in {1, MaxHangPages - 1}}

\* a decodable body whose first record can be mapped and whose second cannot
HalfBody(start) ==
    [decodes |-> TRUE, entities |-> <<ServerRecord(start), NoFieldsRecord>>]

\* the answers of the requests that do return: a page of MaxRecs + 1
\* records, or a page whose second record makes the mapper raise
HangReplies(start) ==
    {Reply(200, PageBody(start, MaxRecs + 1)), Reply(200, HalfBody(start))}

InitHang ==
    /\ pc = "count"
    /\ session = NewSession
    /\ count_res = NoCountReply
    /\ requests = <<>>
    /\ mapping = RunMapping
    /\ test_count = 0
    /\ index = 1
    /\ futures = <<>>
    /\ cursor = 1
    /\ all_tests = <<>>
    /\ progress = 0
    /\ sink = <<>>
    /\ overtaken = FALSE
    /\ call = NoCall

GetCountHang == GetCountFrom(HangCounts)

\* lines 84-91: the get is called without a timeout; the server never
\* answers the request of task i and the worker stays blocked in the call
HangTask(i) ==
    /\ i \in Running(futures)
    /\ futures[i].res = NoReply
    /\ futures' = [futures EXCEPT ![i].res = NeverReturns]
    /\ UNCHANGED <<conn, requests, pc, mapping, test_count, index, cursor,
                   all_tests, progress, sink, overtaken, call>>

\* the request of task i, which is not blocked for ever, returns or raises
ReturnTask(i) ==
    /\ i \in Running(futures)
    /\ futures[i].res = NoReply
    /\ \E res \in HangReplies(futures[i].index) : Return(i, res)

\* the steps the main thread and the workers take when they can
Proceeding ==
    \/ Submit
    \/ SubmitDone
    \/ StartTask
    \/ \E i \in 1..(MaxHangPages + 1) : ReturnTask(i)
    \/ Collect
    \/ ExitPool
    \/ WriteOutput

NextHang ==
    \/ GetCountHang
    \/ \E i \in 1..(MaxHangPages + 1) : HangTask(i)
    \/ Proceeding

\* the threads are scheduled and every request that is not blocked for ever
\* returns
SpecHang == InitHang /\ [][NextHang]_vars /\ WF_vars(Proceeding)

\* the tasks whose request never returns
HungTasks ==
    {i \in 1..Len(futures) :
        futures[i].state = "RUNNING" /\ futures[i].res = NeverReturns}

\* every task but the hung ones is finished
OthersFinished ==
    /\ pc = "collect"
    /\ \A i \in 1..Len(futures) : i \in HungTasks \/ IsFinished(futures[i])

\* C22: a task whose request never returns stays running for ever, the main
\* thread never gets past it and nothing is written; as long as a thread
\* of the pool is left, every other task is still run to its end.
C22_HungTaskStallsRun ==
    /\ [](HungTasks # {} =>
            /\ pc \notin {"write", "done"}
            /\ sink = <<>>
            /\ \A h \in HungTasks : cursor <= h)
    /\ [][HungTasks \subseteq HungTasks']_vars
    /\ (HungTasks # {}) ~>
          (OthersFinished \/ Cardinality(HungTasks) = MAX_CONNECTION_THREADS)

\* the second of more tasks than the pool has threads is hung, every other
\* one has finished and the main thread waits for the second
C22_Witness ==
    /\ HungTasks = {2}
    /\ Len(futures) > MAX_CONNECTION_THREADS
    /\ OthersFinished
    /\ cursor = 2
    /\ pc = "collect"

\* the positions of the table whose row came from the page of future f
RowsOf(f) == {a \in 2..Len(all_tests) : RowPage(all_tests[a]) = f.index}

\* the rows of the page of future f: the mapping of each record of the reply
PageRows(f) ==
    [j \in 1..Len(f.res.content.entities) |->
        map_entity_to_test(f.res.content.entities[j], mapping)]

\* C25: in every state the table holds, of each page, either no row or
\* every mapped row of the page, in the order of the reply; it holds no row
\* of a page with a record whose mapping raises, nor of an unfinished task.
C25_PageAllOrNothing ==
    \A i \in 1..Len(futures) :
       LET f == futures[i] IN
       \/ RowsOf(f) = {}
       \/ /\ IsFinished(f)
          /\ \A j \in 1..Len(PageRows(f)) : ~PageRows(f)[j].raised
          /\ Cardinality(RowsOf(f)) = Len(PageRows(f))
          /\ \E a \in RowsOf(f) :
                \A j \in 1..Len(PageRows(f)) :
                   /\ a + j - 1 \in RowsOf(f)
                   /\ all_tests[a + j - 1] = PageRows(f)[j].row

\* the first page raised at its second record, the second page was mapped
\* whole, both were collected: the table holds the rows of the second only
C25_Witness ==
    /\ pc = "collect"
    /\ cursor = 3
    /\ futures[1].res = Reply(200, HalfBody(futures[1].index))
    /\ futures[1].outcome.kind = "raise"
    /\ RowsOf(futures[1]) = {}
    /\ Succeeded(futures[2])
    /\ RowsOf(futures[2]) = 2..(MaxRecs + 2)

----------------------------------------------------------------------------
(* The assembling of the table from given page results, done twice *)

\* the replies behind the page results: those of a run and a page of one
\* record more
AssembleReplies(start) == Replies(start) \cup {Reply(200, PageBody(start, MaxRecs + 1))}

\* the futures of n finished tasks, the i-th answered with replies[i]
DoneFutures(replies, m) ==
    [i \in 1..Len(replies) |->
        Settled(NewFuture(1 + (i - 1) * QUERY_RESULT_MAX_PER_REQUEST), replies[i], m)]

\* the lists of replies to the requests of the first n pages
ReplyLists(n) ==
    {replies \in [1..n -> UNION {AssembleReplies(1 + (i - 1) * QUERY_RESULT_MAX_PER_REQUEST)
                                    : i \in 1..n}] :
        \A i \in 1..n :
           replies[i] \in AssembleReplies(1 + (i - 1) * QUERY_RESULT_MAX_PER_REQUEST)}

\* every task has finished, the table holds the header, the loop of lines
\* 275-288 is about to start
InitAssemble ==
    /\ pc = "collect"
    /\ session = NewSession
    /\ count_res = NoCountReply
    /\ requests = <<>>
    /\ mapping \in Mappings
    /\ test_count = 0
    /\ index = 1
    /\ \E n \in 0..MaxResults : \E replies \in ReplyLists(n) :
          futures = DoneFutures(replies, mapping)
    /\ cursor = 1
    /\ all_tests = NewTable(<<>>, mapping)
    /\ progress = 0
    /\ sink = <<>>
    /\ overtaken = FALSE
    /\ call = [fn |-> "assemble", round |-> 1, results |-> futures,
               mapping |-> mapping]

\* the first table is put aside and lines 246 and 275-288 are run once more
\* on the same futures
AssembleAgain ==
    /\ pc = "collect"
    /\ call.fn = "assemble"
    /\ call.round = 1
    /\ cursor > Len(futures)
    /\ sink' = all_tests
    /\ all_tests' = NewTable(all_tests, mapping)
    /\ cursor' = 1
    /\ call' = [call EXCEPT !.round = 2]
    /\ UNCHANGED <<conn, requests, pc, mapping, test_count, index, futures,
                   progress, overtaken>>

NextAssemble ==
    \/ Collect
    \/ AssembleAgain

SpecAssemble == InitAssemble /\ [][NextAssemble]_vars

\* the loop has been run to its end for the second time
AssembledTwice == call.fn = "assemble" /\ call.round = 2 /\ cursor > Len(futures)

\* C23: assembling leaves the page results and the mapping as they were, and
\* the table of the second assembling of the same page results is the table
\* of the first.
C23_AssembleIdempotent ==
    /\ futures = call.results
    /\ mapping = call.mapping
    /\ AssembledTwice => all_tests = sink

\* three page results, one a failure, one an exception and one with rows,
\* were assembled twice
C23_Witness ==
    /\ AssembledTwice
    /\ Len(futures) = 3
    /\ futures[1].outcome.kind = "none"
    /\ futures[2].outcome.kind = "rows" /\ futures[2].outcome.rows # <<>>
    /\ futures[3].outcome.kind = "raise"
    /\ Len(sink) = 1 + Len(futures[2].outcome.rows)

----------------------------------------------------------------------------
(* ALMConnection.authenticate as a function of the replies, under SpecAuth *)

\* the statuses of the replies to the three requests
AuthCallStatuses == {200, 201, 204, 302, 401, 500}

\* a connection with or without a session, and the replies of one call
InitAuth ==
    /\ pc = "call"
    /\ session \in {NoSession, GivenSession}
    /\ count_res = NoCountReply
    /\ requests = <<>>
    /\ mapping = RunMapping
    /\ test_count = 0
    /\ index = 1
    /\ futures = <<>>
    /\ cursor = 1
    /\ all_tests = <<>>
    /\ progress = 0
    /\ sink = <<>>
    /\ overtaken = FALSE
    /\ \E is_authed, login_user, session_create \in AuthCallStatuses :
          call = [fn |-> "authenticate", old_session |-> session,
                  is_authed |-> is_authed, login_user |-> login_user,
                  session_create |-> session_create,
                  returned |-> FALSE, sent |-> <<>>]

\* the call runs to its return
CallAuth ==
    /\ pc = "call"
    /\ call.fn = "authenticate"
    /\ ~call.returned
    /\ LET after == authenticate(session, call.is_authed, call.login_user,
                                 call.session_create)
       IN /\ session' = after.session
          /\ call' = [call EXCEPT !.returned = TRUE, !.sent = after.sent]
    /\ UNCHANGED <<count_res, requests, pc, mapping, test_count, index,
                   futures, cursor, all_tests, progress, sink, overtaken>>

NextAuth == CallAuth

SpecAuth == InitAuth /\ [][NextAuth]_vars

AuthReturned == call.fn = "authenticate" /\ call.returned

\* the request named url was sent during the call
Sent(url) == \E k \in 1..Len(call.sent) : call.sent[k] = url

\* C26: after authenticate returns, the session is the new one exactly when
\* (the is-authenticated check returned 200 or the login returned 200 or
\* 201) and the site-session request returned 200 or 201, and is the one of
\* before the call otherwise; the login is sent only after a check that did
\* not return 200, the site-session request only when login was not rejected.
C26_SessionSetIffAccepted ==
    AuthReturned =>
        LET logged_in == call.is_authed = 200 \/ call.login_user \in {200, 201}
            accepted == logged_in /\ call.session_create \in {200, 201}
        IN /\ session = NewSession <=> accepted
           /\ ~accepted => session = call.old_session
           /\ Sent("alm-authenticate") => call.is_authed # 200
           /\ Sent("site-session") => logged_in

\* the login was rejected on a connection that had a session: the session
\* is kept and no site-session request was sent
C26_Witness ==
    /\ AuthReturned
    /\ call.old_session = GivenSession
    /\ call.is_authed = 401
    /\ call.login_user = 401
    /\ call.session_create = 200
    /\ session = GivenSession
    /\ call.sent = <<"is-authenticated", "alm-authenticate">>

----------------------------------------------------------------------------
(* merge_dicts of configuration.py on a heap of dict objects, under SpecMerge *)

\* A dict object is named by an address and the heap maps each address to
\* the items of its dict, a set of <<key, value>> pairs with one pair per
\* key; a value is a leaf or the address of a dict.
Leaf(v) == [isDict |-> FALSE, leaf |-> v, ref |-> <<>>]

Ref(a) == [isDict |-> TRUE, leaf |-> "", ref |-> a]

\* the keys of a dict, the value under a key, OrderedDict()
ItemKeys(d) == {item[1] : item \in d}

Item(d, key) == (CHOOSE item \in d : item[1] = key)[2]

NewDict == {}

\* the keys in the order in which the items of a dict are visited
MergeKeyOrder == <<"alm", "email", "smtp_port">>

ItemOrder(d) == SelectSeq(MergeKeyOrder, LAMBDA k : k \in ItemKeys(d))

\* orig_dict.get(key, OrderedDict()): the value under key, or a new dict
GetOrNew(heap, a, key) ==
    IF key \in ItemKeys(heap[a])
    THEN [heap |-> heap, value |-> Item(heap[a], key)]
    ELSE [heap |-> [b \in DOMAIN heap \cup {Append(a, key)} |->
                       IF b = Append(a, key) THEN NewDict ELSE heap[b]],
          value |-> Ref(Append(a, key))]

\* variant: a key the dict has already keeps its value
SetItem_KeepExisting(heap, a, key, value) ==
    IF key \in ItemKeys(heap[a]) THEN heap
    ELSE [heap EXCEPT ![a] = @ \cup {<<key, value>>}]

\* orig_dict[key] = value: the dict object at a is changed in place
SetItem(heap, a, key, value) ==
    [heap EXCEPT ![a] = {item \in @ : item[1] # key} \cup {<<key, value>>}]

\* merge_dicts(orig_dict, update_dict): orig_dict is a value (a recursive
\* call may hand over a leaf), update_dict the address of a dict. The result
\* is the heap after the call and the returned value, or raised when an
\* item is to be stored in a value that is not a dict (TypeError)
RECURSIVE merge_dicts(_, _, _)
RECURSIVE MergeItems(_, _, _, _)
MergeItems(heap, orig_dict, update_dict, items) ==
    IF items = <<>> THEN [raised |-> FALSE, heap |-> heap, ret |-> orig_dict]
    ELSE IF ~orig_dict.isDict
    THEN [raised |-> TRUE, heap |-> heap, ret |-> orig_dict]
    ELSE LET key == Head(items)
             value == Item(heap[update_dict], key)
         IN IF value.isDict
            THEN LET got == GetOrNew(heap, orig_dict.ref, key)
                     sub == merge_dicts(got.heap, got.value, value.ref)
                 IN IF sub.raised
                    THEN [raised |-> TRUE, heap |-> sub.heap, ret |-> orig_dict]
                    ELSE MergeItems(SetItem(sub.heap, orig_dict.ref, key, sub.ret),
                                    orig_dict, update_dict, Tail(items))
            ELSE MergeItems(SetItem(heap, orig_dict.ref, key, value),
                            orig_dict, update_dict, Tail(items))

merge_dicts(heap, orig_dict, update_dict) ==
    MergeItems(heap, orig_dict, update_dict, ItemOrder(heap[update_dict]))

\* A nested dictionary as a value: a set of <<key, node>> pairs, a node being
\* a leaf or a nested dictionary
Plain(v) == [isDict |-> FALSE, leaf |-> v, dict |-> {}]

Nested(tree) == [isDict |-> TRUE, leaf |-> "", dict |-> tree]

\* the dictionaries over the keys S whose nodes are taken from nodes
TreesOver(S, nodes) == {{<<k, f[k]>> : k \in S} : f \in [S -> nodes]}

\* the dictionaries of a configuration: sections that are leaves or
\* dictionaries of leaves
MergeLeaves == {Plain("x"), Plain("y")}

MergeNodes ==
    MergeLeaves
    \cup {Nested(t) : t \in UNION {TreesOver(S, MergeLeaves) :
                                       S \in SUBSET {"smtp_port"}}}

MergeTrees == UNION {TreesOver(S, MergeNodes) : S \in SUBSET {"alm", "email"}}

\* the dict objects of a nested dictionary whose outermost dict is at root
RECURSIVE Cells(_, _)
Cells(root, tree) ==
    {<<root, {<<item[1], IF item[2].isDict THEN Ref(Append(root, item[1]))
                         ELSE Leaf(item[2].leaf)>> : item \in tree}>>}
    \cup UNION {Cells(Append(root, item[1]), item[2].dict) :
                  item \in {x \in tree : x[2].isDict}}

HeapOf(cells) ==
    [a \in {c[1] : c \in cells} |-> (CHOOSE c \in cells : c[1] = a)[2]]

\* the nested dictionary held by the dict object at a
RECURSIVE Tree(_, _)
Tree(heap, a) ==
    {<<item[1], IF item[2].isDict THEN Nested(Tree(heap, item[2].ref))
                ELSE Plain(item[2].leaf)>> : item \in heap[a]}

\* the dict objects reachable from the dict object at a
RECURSIVE Reach(_, _)
Reach(heap, a) ==
    {a} \cup UNION {Reach(heap, item[2].ref) : item \in {x \in heap[a] : x[2].isDict}}

OrigAddr == <<"orig_dict">>

UpdateAddr == <<"update_dict">>

\* two dictionaries that share no dict object, as in ConfigStore.__init__
InitMerge ==
    /\ pc = "call"
    /\ session = NoSession
    /\ count_res = NoCountReply
    /\ requests = <<>>
    /\ mapping = RunMapping
    /\ test_count = 0
    /\ index = 1
    /\ futures = <<>>
    /\ cursor = 1
    /\ all_tests = <<>>
    /\ progress = 0
    /\ sink = <<>>
    /\ overtaken = FALSE
    /\ \E base \in MergeTrees, override \in MergeTrees :
          call = [fn |-> "merge_dicts", base |-> base, override |-> override,
                  heap |-> HeapOf(Cells(OrigAddr, base)
                                  \cup Cells(UpdateAddr, override)),
                  returned |-> FALSE, raised |-> FALSE, ret |-> Leaf("unset")]

\* the call runs to its return or to the exception that leaves it
CallMerge ==
    /\ pc = "call"
    /\ call.fn = "merge_dicts"
    /\ ~call.returned
    /\ LET after == merge_dicts(call.heap, Ref(OrigAddr), UpdateAddr)
       IN call' = [call EXCEPT !.returned = TRUE, !.raised = after.raised,
                               !.heap = after.heap, !.ret = after.ret]
    /\ UNCHANGED <<conn, requests, pc, mapping, test_count, index, futures,
                   cursor, all_tests, progress, sink, overtaken>>

NextMerge == CallMerge

SpecMerge == InitMerge /\ [][NextMerge]_vars

MergeReturned == call.fn = "merge_dicts" /\ call.returned

TreeKeys(tree) == {item[1] : item \in tree}

Node(tree, key) == (CHOOSE item \in tree : item[1] = key)[2]

\* the merge of two nested dictionaries: the leaves of override, the leaves
\* that only base has, dictionaries under the same key merged; an empty
\* dictionary of override leaves a leaf of base in place
RECURSIVE Merged(_, _)
Merged(base, override) ==
    {<<k, IF k \notin TreeKeys(override) THEN Node(base, k)
          ELSE IF ~Node(override, k).isDict THEN Node(override, k)
          ELSE IF k \notin TreeKeys(base)
               THEN Nested(Merged({}, Node(override, k).dict))
          ELSE IF Node(base, k).isDict
               THEN Nested(Merged(Node(base, k).dict, Node(override, k).dict))
          ELSE Node(base, k)>> : k \in TreeKeys(base) \cup TreeKeys(override)}

\* override holds a dictionary with items under a key where base holds a
\* leaf
RECURSIVE Clash(_, _)
Clash(base, override) ==
    \E k \in TreeKeys(base) \cap TreeKeys(override) :
       /\ Node(override, k).isDict
       /\ IF Node(base, k).isDict
          THEN Clash(Node(base, k).dict, Node(override, k).dict)
          ELSE Node(override, k).dict # {}

----------------------------------------------------------------------------
(* fetch_test_from_index as a function of the reply, checked under SpecFetch *)

\* a record whose id field carries two values
TwoValuesRecord ==
    [hasFields |-> TRUE,
     Fields |-> << [Name |-> "id", hasValues |-> TRUE,
                    values |-> <<Str(<<"7">>), Str(<<"8">>)>>],
                   [Name |-> "owner", hasValues |-> TRUE,
                    values |-> <<Str(<<"qa">>)>>] >>]

Entities(records) == [decodes |-> TRUE, entities |-> records]

FetchBodies ==
    {BadBody,
     Entities(<<ServerRecord(2), ServerRecord(1)>>),
     Entities(<<ServerRecord(1), TwoValuesRecord>>),
     Entities(<<ServerRecord(1), NoFieldsRecord>>)}
    \cup {PageBody(1, n) : n \in 0..(MaxRecs + 1)}

FetchStatuses == {100, 199, 200, 201, 204, 206, 299, 300, 301, 400, 404, 500}

FetchReplies ==
    {TransportError} \cup {Reply(st, b) : st \in FetchStatuses, b \in FetchBodies}

InitFetch ==
    /\ pc = "call"
    /\ session = NewSession
    /\ count_res = NoCountReply
    /\ requests = <<>>
    /\ mapping \in Mappings
    /\ test_count = 0
    /\ index = 1
    /\ futures = <<>>
    /\ cursor = 1
    /\ all_tests = <<>>
    /\ progress = 0
    /\ sink = <<>>
    /\ overtaken = FALSE
    /\ \E res \in FetchReplies :
          call = [fn |-> "fetch_test_from_index", res |-> res,
                  returned |-> FALSE, ret |-> NoOutcome]

\* the call runs to its return or to the exception that leaves it
CallFetch ==
    /\ pc = "call"
    /\ call.fn = "fetch_test_from_index"
    /\ ~call.returned
    /\ call' = [call EXCEPT !.returned = TRUE,
                            !.ret = fetch_test_from_index(call.res, mapping)]
    /\ UNCHANGED <<conn, requests, pc, mapping, test_count, index, futures,
                   cursor, all_tests, progress, sink, overtaken>>

NextFetch == CallFetch

SpecFetch == InitFetch /\ [][NextFetch]_vars

FetchReturned == call.fn = "fetch_test_from_index" /\ call.returned

\* the server answered (the request itself did not raise)
Answered == FetchReturned /\ ~call.res.raises

\* every record of the body can be mapped
Mappable(content) ==
    /\ content.decodes
    /\ \A j \in 1..Len(content.entities) :
          ~map_entity_to_test(content.entities[j], mapping).raised

\* the return value of a successful call on a page without records: []
EmptySuccess == [kind |-> "rows", rows |-> <<>>]

\* C8: for every status outside 200..299 the call returns the failure marker
\* None, which differs from the empty list of an empty page, and does not raise.
C8_FailureMarker ==
    (Answered /\ call.res.status_code \notin 200..299) =>
        /\ call.ret.kind = "none"
        /\ call.ret # EmptySuccess

\* a redirect with a well-formed body is answered with the marker
C8_Witness ==
    /\ Answered
    /\ call.res.status_code = 301
    /\ call.res.content = PageBody(1, MaxRecs + 1)
    /\ call.ret.kind = "none"

\* C9 as stated: every status of 200..299 is a success, the body is decoded
\* and the mapped rows are returned.
C9_AnySuccessStatus ==
    (Answered /\ call.res.status_code \in 200..299 /\ Mappable(call.res.content)) =>
        call.ret.kind = "rows"

\* C9 as amended: status 200 alone is a success; the other statuses of
\* 200..299 return the failure marker like any other status.
C9_Only200 ==
    Answered =>
        /\ (call.res.status_code = 200 /\ Mappable(call.res.content)) =>
              /\ call.ret.kind = "rows"
              /\ Len(call.ret.rows) = Len(call.res.content.entities)
        /\ call.res.status_code \in 201..299 => call.ret.kind = "none"

\* a 201 reply with records is answered with the marker
C9_Witness ==
    /\ Answered
    /\ call.res.status_code = 201
    /\ Len(call.res.content.entities) = 2
    /\ Mappable(call.res.content)
    /\ call.ret.kind = "none"

\* C10: on a successful page the call returns one mapped row per record, the
\* i-th row being the mapping of the i-th record of the body.
C10_RowPerRecord ==
    (Answered /\ call.res.status_code = 200 /\ Mappable(call.res.content)) =>
        /\ call.ret.kind = "rows"
        /\ Len(call.ret.rows) = Len(call.res.content.entities)
        /\ \A i \in 1..Len(call.ret.rows) :
              call.ret.rows[i] =
                 map_entity_to_test(call.res.content.entities[i], mapping).row

\* the server returned record 2 before record 1 and the rows keep that order
C10_Witness ==
    /\ Answered
    /\ call.res.status_code = 200
    /\ call.res.content = Entities(<<ServerRecord(2), ServerRecord(1)>>)
    /\ Len(call.ret.rows) = 2
    /\ call.ret.rows[1] # call.ret.rows[2]
    /\ call.ret.rows[1] = map_entity_to_test(ServerRecord(2), mapping).row

----------------------------------------------------------------------------
(* map_entity_to_test as a function of the record, checked under SpecMap *)

MapNames == {"id", "owner", "description"}

\* the value lists of a field: empty, a null value, a plain value, a value
\* with markup, two values
MapValueLists ==
    {<<>>, <<None>>, <<Str(<<"7">>)>>, <<Str(<<"<b>", "Pass", "</b>">>)>>,
     <<Str(<<"7">>), Str(<<"8">>)>>}

\* the fields of a record, among them fields without a "values" entry
MapFields ==
    {[Name |-> n, hasValues |-> TRUE, values |-> v] :
        n \in MapNames, v \in MapValueLists}
    \cup {[Name |-> n, hasValues |-> FALSE, values |-> <<>>] : n \in MapNames}

MapRecords ==
    {NoFieldsRecord}
    \cup {[hasFields |-> TRUE, Fields |-> fs] :
            fs \in UNION {[1..n -> MapFields] : n \in 0..MaxFields}}

InitMap ==
    /\ pc = "call"
    /\ session = NewSession
    /\ count_res = NoCountReply
    /\ requests = <<>>
    /\ mapping \in MapMappings
    /\ test_count = 0
    /\ index = 1
    /\ futures = <<>>
    /\ cursor = 1
    /\ all_tests = <<>>
    /\ progress = 0
    /\ sink = <<>>
    /\ overtaken = FALSE
    /\ \E record \in MapRecords :
          call = [fn |-> "map_entity_to_test", record |-> record,
                  returned |-> FALSE, ret |-> [raised |-> FALSE, row |-> <<>>]]

\* the call runs to its return or to the exception that leaves it
CallMap ==
    /\ pc = "call"
    /\ call.fn = "map_entity_to_test"
    /\ ~call.returned
    /\ call' = [call EXCEPT !.returned = TRUE,
                            !.ret = map_entity_to_test(call.record, mapping)]
    /\ UNCHANGED <<conn, requests, pc, mapping, test_count, index, futures,
                   cursor, all_tests, progress, sink, overtaken>>

NextMap == CallMap

SpecMap == InitMap /\ [][NextMap]_vars

MapReturned == call.fn = "map_entity_to_test" /\ call.returned

\* the record is a RawRecord: a list of fields, each with a list of values
IsRawRecord(record) ==
    /\ record.hasFields
    /\ \A j \in 1..Len(record.Fields) : record.Fields[j].hasValues

\* the positions of the fields named key that carry exactly one value entry,
\* and that entry is not null
Usable(record, key) ==
    {j \in 1..Len(record.Fields) :
        /\ record.Fields[j].Name = key
        /\ Len(record.Fields[j].values) = 1
        /\ ~record.Fields[j].values[1].isNone}

\* the record has an extracted scalar for key
HasScalar(record, key) == Usable(record, key) # {}

\* the extracted scalar for key: the one of the last usable field
Scalar(record, key) ==
    LET last == CHOOSE j \in Usable(record, key) :
                    \A k \in Usable(record, key) : k <= j
    IN record.Fields[last].values[1]

\* C12: for every raw record and mapping the row has one cell per mapping
\* entry, and cell i is the cell of mapping entry i alone, however many
\* fields the record has.
C12_RowShape ==
    (MapReturned /\ IsRawRecord(call.record)) =>
        /\ ~call.ret.raised
        /\ Len(call.ret.row) = Len(mapping)
        /\ \A i \in 1..Len(mapping) :
              call.ret.row[i] =
                 map_entity_to_test(call.record, <<mapping[i]>>).row[1]

\* a record without fields is mapped to a row of three cells
C12_Witness ==
    /\ MapReturned
    /\ call.record.hasFields
    /\ call.record.Fields = <<>>
    /\ Len(mapping) = 3
    /\ Len(call.ret.row) = 3

\* C13 as stated: under every source-key, "description" included, the cell
\* is the extracted scalar when the record has one and null otherwise.
C13_ScalarOrNull ==
    (MapReturned /\ IsRawRecord(call.record)) =>
        \A i \in 1..Len(mapping) :
           call.ret.row[i] = IF HasScalar(call.record, mapping[i][2])
                             THEN Scalar(call.record, mapping[i][2])
                             ELSE None

\* C13 as amended: under a source-key other than "description" the cell is
\* the extracted scalar or null; under "description" it is the text of the
\* extracted scalar without its markup, or the empty string.
C13_ScalarOrNullButDescription ==
    (MapReturned /\ IsRawRecord(call.record)) =>
        \A i \in 1..Len(mapping) :
           LET key == mapping[i][2]
               has == HasScalar(call.record, key)
           IN IF key # "description"
              THEN call.ret.row[i] = IF has THEN Scalar(call.record, key) ELSE None
              ELSE call.ret.row[i] =
                      IF has THEN Str(HtmlText(Scalar(call.record, key).text))
                      ELSE Str(<<>>)

\* the record has no description and an owner: the description cell is the
\* empty string, the cell of the missing id is null
C13_Witness ==
    /\ MapReturned
    /\ mapping = RunMapping
    /\ ~HasScalar(call.record, "description")
    /\ ~HasScalar(call.record, "id")
    /\ call.ret.row = <<None, Str(<<>>)>>

\* the fields of the record with the name of field j
SameName(record, j) ==
    {k \in 1..Len(record.Fields) : record.Fields[k].Name = record.Fields[j].Name}

\* C14 as stated: in every record, a field with no value entry or with
\* several maps to null, a field with one non-null entry to that value.
C14_AmbiguousDropped ==
    (MapReturned /\ IsRawRecord(call.record)) =>
        \A j \in 1..Len(call.record.Fields) : \A i \in 1..Len(mapping) :
           LET field == call.record.Fields[j] IN
           mapping[i][2] = field.Name =>
              /\ Len(field.values) # 1 => call.ret.row[i] = None
              /\ (Len(field.values) = 1 /\ ~field.values[1].isNone) =>
                    call.ret.row[i] = field.values[1]

\* C14 as amended: for a field whose name occurs once in the record and a
\* source-key other than "description", no value entry or several map to
\* null and one non-null entry maps to that value; under "description" they
\* map to the empty string and to the text without markup; when the name
\* occurs again, the last field with one non-null entry gives the cell.
C14_AmbiguousDroppedUniqueName ==
    (MapReturned /\ IsRawRecord(call.record)) =>
        \A j \in 1..Len(call.record.Fields) : \A i \in 1..Len(mapping) :
           LET field == call.record.Fields[j]
               one == Len(field.values) = 1 /\ ~field.values[1].isNone
               cell == call.ret.row[i]
           IN mapping[i][2] = field.Name =>
                 IF SameName(call.record, j) = {j}
                 THEN IF field.Name # "description"
                      THEN /\ Len(field.values) # 1 => cell = None
                           /\ one => cell = field.values[1]
                      ELSE /\ Len(field.values) # 1 => cell = Str(<<>>)
                           /\ one => cell = Str(HtmlText(field.values[1].text))
                 ELSE (one /\ \A k \in Usable(call.record, field.Name) : k <= j) =>
                         cell = IF field.Name # "description"
                                THEN field.values[1]
                                ELSE Str(HtmlText(field.values[1].text))

\* the id occurs twice, first with one value and then with two: the cell is
\* the value of the first field
C14_Witness ==
    /\ MapReturned
    /\ mapping = RunMapping
    /\ Len(call.record.Fields) = 2
    /\ call.record.Fields[1] =
          [Name |-> "id", hasValues |-> TRUE, values |-> <<Str(<<"7">>)>>]
    /\ call.record.Fields[2] =
          [Name |-> "id", hasValues |-> TRUE,
           values |-> <<Str(<<"7">>), Str(<<"8">>)>>]
    /\ call.ret.row[1] = Str(<<"7">>)

\* C15: map_entity_to_test never raises, whatever the record lacks.
C15_NeverRaises == MapReturned => ~call.ret.raised

\* C16: the markup is removed from the cell of the entries whose source-key
\* is "description" and from no other cell.
C16_ReductionOnlyForDescription ==
    (MapReturned /\ IsRawRecord(call.record)) =>
        \A i \in 1..Len(mapping) :
           LET key == mapping[i][2] IN
           HasScalar(call.record, key) =>
              call.ret.row[i] =
                 IF key = "description"
                 THEN Str(HtmlText(Scalar(call.record, key).text))
                 ELSE Scalar(call.record, key)

\* owner and description carry the same marked-up value: the owner cell
\* keeps it, the two description cells hold the text alone
C16_Witness ==
    /\ MapReturned
    /\ Len(mapping) = 3
    /\ HasScalar(call.record, "owner")
    /\ HasScalar(call.record, "description")
    /\ Scalar(call.record, "owner") = Str(<<"<b>", "Pass", "</b>">>)
    /\ Scalar(call.record, "description") = Str(<<"<b>", "Pass", "</b>">>)
    /\ call.ret.row =
          <<Str(<<"Pass">>), Str(<<"<b>", "Pass", "</b>">>), Str(<<"Pass">>)>>

====
